---- MODULE Spec2Model ----
(***************************************************************************)
(* Task manager of the rCore teaching kernel (os/src/task/mod.rs) and the  *)
(* process syscalls built on it (os/src/syscall/process.rs).               *)
(*                                                                         *)
(* The task manager is one global object: a task list and the index of the *)
(* current task behind an exclusive-access cell.  Every operation is a     *)
(* state transformer on the record                                         *)
(*   [tasks, current_task, borrowed, outcome]                              *)
(* where `borrowed` is the cell's borrow flag and `outcome` is "none"      *)
(* while the kernel runs and the panic message once it has stopped.        *)
(***************************************************************************)
EXTENDS Integers, Sequences, FiniteSets, TLC

VARIABLES
    tasks,            \* TaskManagerInner::tasks
    current_task,     \* TaskManagerInner::current_task
    borrowed,         \* borrow flag of TaskManager::inner
    outcome,          \* "none", or the message the kernel panicked with
    overflow_checks,  \* the build profile: does integer overflow panic?
    started,          \* has rust_main called run_first_task?
    clock,            \* get_time_ms()
    call,             \* the operation served last, with its arguments
    ret,              \* what it returned
    info,             \* the TaskInfo written by the last sys_task_info
    visited,          \* history: tasks the last yields in a row switched to
    saved_areas,      \* history: the regions before the last successful mmap
    invoked,          \* history: syscalls each task has made, per id
    ncalls,           \* history: syscalls made in all
    dispatch_time,    \* history: the clock when a task first ran, or -1
    reported,         \* history: the time each task was last told, or -1
    waiting           \* history: switches a Ready task has waited through

vars == <<tasks, current_task, borrowed, outcome, overflow_checks, started,
          clock, call, ret, info, visited, saved_areas, invoked, ncalls,
          dispatch_time, reported, waiting>>

(* ------------------------------ bounds --------------------------------- *)

\* number of applications linked into the kernel image (get_num_app())
NumApp == 4

\* most regions one memory set holds in the model
MaxAreas == 2

\* width of the model's machine word, in bits: usize arithmetic is modulo
\* 2^WordBits (four pages of address space)
WordBits == 14

\* width of a syscall counter (u32 in the kernel), in bits
CounterBits == 2

\* most syscalls the tasks make in one run of the bookkeeping model
MaxCalls == 5

\* last value of the millisecond clock
MaxClock == 2

(* ----------------------------- constants ------------------------------- *)

PAGE_SIZE == 4096

WordSize == 2 ^ WordBits

None == -1

NoPanic == "none"

AllCompleted == "All applications completed!"

BorrowMutError == "already borrowed: BorrowMutError"

AddOverflow == "attempt to add with overflow"

SubOverflow == "attempt to subtract with overflow"

TranslateFailed == "Failed to get physical address from virtual address"

\* largest value of a syscall counter
CounterMax == 2 ^ CounterBits - 1

\* the syscall ids the tasks use: exit, yield, munmap, mmap, task_info
SyscallId == [exit |-> 93, yield |-> 124, munmap |-> 215, mmap |-> 222,
              task_info |-> 410]

SyscallIds == { SyscallId[op] : op \in DOMAIN SyscallId }

TaskIds == 0 .. (NumApp - 1)

(* --------------------------- address types ----------------------------- *)

\* VirtAddr::from(usize)
VirtAddr(v) == v

\* VirtAddr::floor: the page that holds the address
floor(va) == va \div PAGE_SIZE

\* VirtAddr::ceil: the first page at or after the address
ceil(va) == (va + PAGE_SIZE - 1) \div PAGE_SIZE

\* the pages of the half-open range [start_va, end_va)
VPNRange(start_va, end_va) == { v \in 0 .. (WordSize \div PAGE_SIZE) :
                                  floor(start_va) <= v /\ v < ceil(end_va) }

(* ------------------------- task control block -------------------------- *)

\* MapPermission bits
MapPermission == {"R", "W", "X", "U"}

\* the region every task starts with: its program image in page 0
ImageArea == [start_vpn |-> 0, end_vpn |-> 1, perm |-> {"R", "X", "U"}]

\* TaskControlBlock::new: a Ready task that owns its image
TaskControlBlock ==
    [ task_status |-> "Ready",
      memory_set  |-> [ areas      |-> {ImageArea},
                        page_table |-> [v \in {0} |-> {"V", "R", "X", "U"}] ],
      syscall_times |-> [id \in SyscallIds |-> 0],
      is_scheduled |-> FALSE,
      first_scheduled_time |-> 0 ]

(* ------------------------ exclusive-access cell ------------------------ *)

TM == [tasks |-> tasks, current_task |-> current_task,
       borrowed |-> borrowed, outcome |-> outcome,
       overflow_checks |-> overflow_checks]

panicked(tm) == tm.outcome # NoPanic

panic(tm, msg) == [tm EXCEPT !.outcome = msg]

\* UPSafeCell::exclusive_access: borrow_mut, a second live borrow aborts
exclusive_access(tm) ==
    IF panicked(tm) THEN tm
    ELSE IF tm.borrowed THEN panic(tm, BorrowMutError)
    ELSE [tm EXCEPT !.borrowed = TRUE]

\* the RefMut guard goes out of scope or is dropped
drop(tm) == IF panicked(tm) THEN tm ELSE [tm EXCEPT !.borrowed = FALSE]

(* ---------------------------- memory set ------------------------------- *)

\* the pages of a recorded region
AreaPages(a) == { v \in 0 .. (WordSize \div PAGE_SIZE) :
                    a.start_vpn <= v /\ v < a.end_vpn }

\* MemorySet::check_used: the range intersects a region
check_used(memory_set, start_va, end_va) ==
    \E a \in memory_set.areas :
        AreaPages(a) \cap VPNRange(start_va, end_va) # {}

\* MemorySet::check_unused: some page of the range is not mapped
check_unused(memory_set, start_va, end_va) ==
    \E v \in VPNRange(start_va, end_va) : v \notin DOMAIN memory_set.page_table

\* MemorySet::insert_framed_area: a frame and a page-table entry for every
\* page of the range, and a new region record
insert_framed_area(memory_set, start_va, end_va, permission) ==
    [ areas      |-> memory_set.areas \cup
                       { [ start_vpn |-> floor(start_va),
                           end_vpn   |-> ceil(end_va),
                           perm      |-> permission ] },
      page_table |-> [ v \in DOMAIN memory_set.page_table
                               \cup VPNRange(start_va, end_va) |->
                         IF v \in VPNRange(start_va, end_va)
                         THEN permission \cup {"V"}
                         ELSE memory_set.page_table[v] ] ]

\* MemorySet::delete_area: the region(s) recorded for the range go, with
\* the page-table entries of their pages; nothing happens without a match
delete_area(memory_set, start_va, end_va) ==
    LET matched == { a \in memory_set.areas :
                       /\ a.start_vpn = floor(start_va)
                       /\ a.end_vpn = ceil(end_va) }
    IN  IF matched = {} THEN memory_set
        ELSE [ areas      |-> memory_set.areas \ matched,
               page_table |-> [ v \in DOMAIN memory_set.page_table
                                        \ VPNRange(start_va, end_va) |->
                                  memory_set.page_table[v] ] ]

(* -------------------------- mmap and munmap ---------------------------- *)

\* usize addition in a build without overflow checks
usize_add(a, b) == (a + b) % WordSize

\* does a + b leave the machine word?
add_overflows(a, b) == a + b >= WordSize

\* prot & 0x7
low3(prot) == prot % 8

\* prot & !0x7
high(prot) == prot - (prot % 8)

\* prot & (1 << k) == (1 << k)
bit(prot, k) == (prot \div (2 ^ k)) % 2 = 1

\* the MapPermission built from prot
right_of(prot) ==
    {"U"} \cup (IF bit(prot, 0) THEN {"R"} ELSE {})
          \cup (IF bit(prot, 1) THEN {"W"} ELSE {})
          \cup (IF bit(prot, 2) THEN {"X"} ELSE {})

mmap_nocheck(tm, start, len, prot) ==
    IF low3(prot) = 0 \/ high(prot) # 0 THEN [tm |-> tm, ret |-> -1]
    ELSE
    LET right == right_of(prot)
        inner == exclusive_access(tm)
    IN  IF panicked(inner) THEN [tm |-> inner, ret |-> -1]
        ELSE IF inner.overflow_checks /\ add_overflows(start, len)
        THEN [tm |-> panic(inner, AddOverflow), ret |-> -1]
        ELSE
        LET cur == inner.current_task
            memory_set == inner.tasks[cur].memory_set
            start_va == VirtAddr(start)
            end_va == VirtAddr(usize_add(start, len))
        IN  IF start_va % PAGE_SIZE # 0
            THEN [tm |-> drop(inner), ret |-> -1]
            ELSE [ tm  |-> drop([inner EXCEPT !.tasks[cur].memory_set =
                              insert_framed_area(memory_set, start_va, end_va,
                                                 right)]),
                   ret |-> 0 ]

\* TaskManager::mmap
mmap(tm, start, len, prot) ==
    IF low3(prot) = 0 \/ high(prot) # 0 THEN [tm |-> tm, ret |-> -1]
    ELSE
    LET right == right_of(prot)
        inner == exclusive_access(tm)
    IN  IF panicked(inner) THEN [tm |-> inner, ret |-> -1]
        ELSE IF inner.overflow_checks /\ add_overflows(start, len)
        THEN [tm |-> panic(inner, AddOverflow), ret |-> -1]
        ELSE
        LET cur == inner.current_task
            memory_set == inner.tasks[cur].memory_set
            start_va == VirtAddr(start)
            end_va == VirtAddr(usize_add(start, len))
        IN  IF check_used(memory_set, start_va, end_va)
            THEN [tm |-> drop(inner), ret |-> -1]
            ELSE IF start_va % PAGE_SIZE # 0
            THEN [tm |-> drop(inner), ret |-> -1]
            ELSE [ tm  |-> drop([inner EXCEPT !.tasks[cur].memory_set =
                              insert_framed_area(memory_set, start_va, end_va,
                                                 right)]),
                   ret |-> 0 ]

\* TaskManager::munmap
munmap(tm, start, len) ==
    LET inner == exclusive_access(tm) IN
    IF panicked(inner) THEN [tm |-> inner, ret |-> -1]
    ELSE IF inner.overflow_checks /\ add_overflows(start, len)
    THEN [tm |-> panic(inner, AddOverflow), ret |-> -1]
    ELSE
    LET cur == inner.current_task
        memory_set == inner.tasks[cur].memory_set
        start_va == VirtAddr(start)
        end_va == VirtAddr(usize_add(start, len))
    IN  IF check_unused(memory_set, start_va, end_va)
        THEN [tm |-> drop(inner), ret |-> -1]
        ELSE IF start_va % PAGE_SIZE # 0
        THEN [tm |-> drop(inner), ret |-> -1]
        ELSE [ tm  |-> drop([inner EXCEPT !.tasks[cur].memory_set =
                          delete_area(memory_set, start_va, end_va)]),
               ret |-> 0 ]

(* ----------------------------- scheduler ------------------------------- *)

\* TaskManager::run_first_task, up to the call of __switch
run_first_task(tm) ==
    LET inner == exclusive_access(tm) IN
    IF panicked(inner) THEN inner
    ELSE drop([inner EXCEPT !.tasks[0].task_status = "Running"])

mark_current_suspended_keep(tm) ==
    LET inner == exclusive_access(tm) IN
    IF panicked(inner) THEN inner
    ELSE drop(inner)

\* TaskManager::mark_current_suspended
mark_current_suspended(tm) ==
    LET inner == exclusive_access(tm) IN
    IF panicked(inner) THEN inner
    ELSE drop([inner EXCEPT !.tasks[inner.current_task].task_status = "Ready"])

\* TaskManager::mark_current_exited
mark_current_exited(tm) ==
    LET inner == exclusive_access(tm) IN
    IF panicked(inner) THEN inner
    ELSE drop([inner EXCEPT !.tasks[inner.current_task].task_status = "Exited"])

find_next_task_lowest(tm) ==
    LET inner == exclusive_access(tm) IN
    IF panicked(inner) THEN [tm |-> inner, val |-> None]
    ELSE LET ready == { id \in TaskIds : inner.tasks[id].task_status = "Ready" }
         IN  [ tm  |-> drop(inner),
               val |-> IF ready = {} THEN None
                       ELSE CHOOSE id \in ready : \A o \in ready : id <= o ]

find_next_task_not_running(tm) ==
    LET inner == exclusive_access(tm) IN
    IF panicked(inner) THEN [tm |-> inner, val |-> None]
    ELSE LET current == inner.current_task
             ks == { k \in 1 .. NumApp :
                       inner.tasks[(current + k) % NumApp].task_status # "Running" }
         IN  [ tm  |-> drop(inner),
               val |-> IF ks = {} THEN None
                       ELSE (current + (CHOOSE k \in ks : \A o \in ks : k <= o))
                               % NumApp ]

\* find_next_task that never looks at the current task itself
find_next_task_skip_current(tm) ==
    LET inner == exclusive_access(tm) IN
    IF panicked(inner) THEN [tm |-> inner, val |-> None]
    ELSE LET current == inner.current_task
             ks == { k \in 1 .. (NumApp - 1) :
                       inner.tasks[(current + k) % NumApp].task_status = "Ready" }
         IN  [ tm  |-> drop(inner),
               val |-> IF ks = {} THEN None
                       ELSE (current + (CHOOSE k \in ks : \A o \in ks : k <= o))
                               % NumApp ]

\* find_next_task that takes the highest Ready id
find_next_task_highest(tm) ==
    LET inner == exclusive_access(tm) IN
    IF panicked(inner) THEN [tm |-> inner, val |-> None]
    ELSE LET ready == { i \in TaskIds : inner.tasks[i].task_status = "Ready" }
         IN  [ tm  |-> drop(inner),
               val |-> IF ready = {} THEN None
                       ELSE CHOOSE i \in ready : \A o \in ready : o <= i ]

\* TaskManager::find_next_task: the first Ready id among
\* current+1 .. current+num_app, each taken modulo num_app
find_next_task(tm) ==
    LET inner == exclusive_access(tm) IN
    IF panicked(inner) THEN [tm |-> inner, val |-> None]
    ELSE LET current == inner.current_task
             ks == { k \in 1 .. NumApp :
                       inner.tasks[(current + k) % NumApp].task_status = "Ready" }
         IN  [ tm  |-> drop(inner),
               val |-> IF ks = {} THEN None
                       ELSE (current + (CHOOSE k \in ks : \A o \in ks : k <= o))
                               % NumApp ]

run_next_task_nodrop(tm) ==
    LET found == find_next_task(tm) IN
    IF panicked(found.tm) THEN found.tm
    ELSE IF found.val # None
    THEN LET inner == exclusive_access(found.tm) IN
         IF panicked(inner) THEN inner
         ELSE [inner EXCEPT !.tasks[found.val].task_status = "Running",
                            !.current_task = found.val]
    ELSE panic(found.tm, AllCompleted)

run_next_task_return(tm) ==
    LET found == find_next_task(tm) IN
    IF panicked(found.tm) THEN found.tm
    ELSE IF found.val # None
    THEN LET inner == exclusive_access(found.tm) IN
         IF panicked(inner) THEN inner
         ELSE drop([inner EXCEPT !.tasks[found.val].task_status = "Running",
                                 !.current_task = found.val])
    ELSE found.tm

\* TaskManager::run_next_task, up to the call of __switch
run_next_task(tm) ==
    LET found == find_next_task(tm) IN
    IF panicked(found.tm) THEN found.tm
    ELSE IF found.val # None
    THEN LET inner == exclusive_access(found.tm) IN
         IF panicked(inner) THEN inner
         ELSE drop([inner EXCEPT !.tasks[found.val].task_status = "Running",
                                 !.current_task = found.val])
    ELSE panic(found.tm, AllCompleted)

\* suspend_current_and_run_next
suspend_current_and_run_next(tm) == run_next_task(mark_current_suspended(tm))

\* exit_current_and_run_next
exit_current_and_run_next(tm) == run_next_task(mark_current_exited(tm))

(* ----------------------------- bookkeeping ----------------------------- *)

\* timer::get_time_ms()
get_time_ms == clock

\* usize subtraction in a build without overflow checks
usize_sub(a, b) == (a - b) % WordSize

\* schedule_mark that stamps every task that has no stamp
schedule_mark_all(tm) ==
    LET inner == exclusive_access(tm) IN
    IF panicked(inner) THEN inner
    ELSE drop([inner EXCEPT !.tasks =
                 [ i \in TaskIds |->
                     IF ~inner.tasks[i].is_scheduled
                     THEN [inner.tasks[i] EXCEPT
                             !.is_scheduled = TRUE,
                             !.first_scheduled_time = get_time_ms]
                     ELSE inner.tasks[i] ]])

\* schedule_mark without the is_scheduled test
schedule_mark_always(tm) ==
    LET inner == exclusive_access(tm) IN
    IF panicked(inner) THEN inner
    ELSE
    LET curr_id == inner.current_task
        current_task_ == inner.tasks[curr_id]
    IN  drop([inner EXCEPT !.tasks[curr_id] =
                 [current_task_ EXCEPT !.is_scheduled = TRUE,
                                       !.first_scheduled_time = get_time_ms]])

\* TaskManager::schedule_mark: the first call for a task stamps it
schedule_mark(tm) ==
    LET inner == exclusive_access(tm) IN
    IF panicked(inner) THEN inner
    ELSE
    LET curr_id == inner.current_task
        current_task_ == inner.tasks[curr_id]
    IN  IF ~current_task_.is_scheduled
        THEN drop([inner EXCEPT !.tasks[curr_id] =
                     [current_task_ EXCEPT !.is_scheduled = TRUE,
                                           !.first_scheduled_time = get_time_ms]])
        ELSE drop(inner)

\* TaskManager::get_current_status
get_current_status(tm) ==
    LET inner == exclusive_access(tm) IN
    IF panicked(inner) THEN [tm |-> inner, val |-> "Running"]
    ELSE [tm |-> drop(inner),
          val |-> inner.tasks[inner.current_task].task_status]

\* record_this_call that counts in the first task's record
record_this_call_first(tm, syscall_id) ==
    LET inner == exclusive_access(tm) IN
    IF panicked(inner) THEN inner
    ELSE
    LET times == inner.tasks[0].syscall_times[syscall_id]
    IN  IF times = CounterMax /\ inner.overflow_checks
        THEN panic(inner, AddOverflow)
        ELSE drop([inner EXCEPT
                     !.tasks[0].syscall_times[syscall_id] =
                        (times + 1) % (CounterMax + 1)])

\* TaskManager::record_this_call: syscall_times[syscall_id] += 1 on a u32
record_this_call(tm, syscall_id) ==
    LET inner == exclusive_access(tm) IN
    IF panicked(inner) THEN inner
    ELSE
    LET curr_task_id == inner.current_task
        times == inner.tasks[curr_task_id].syscall_times[syscall_id]
    IN  IF times = CounterMax /\ inner.overflow_checks
        THEN panic(inner, AddOverflow)
        ELSE drop([inner EXCEPT
                     !.tasks[curr_task_id].syscall_times[syscall_id] =
                        (times + 1) % (CounterMax + 1)])

\* TaskManager::get_currtask_syscall_time
get_currtask_syscall_time(tm) ==
    LET inner == exclusive_access(tm) IN
    IF panicked(inner) THEN [tm |-> inner, val |-> [id \in SyscallIds |-> 0]]
    ELSE [tm |-> drop(inner),
          val |-> inner.tasks[inner.current_task].syscall_times]

\* TaskManager::get_currtask_first_scheduled_time
get_currtask_first_scheduled_time(tm) ==
    LET inner == exclusive_access(tm) IN
    IF panicked(inner) THEN [tm |-> inner, val |-> 0]
    ELSE [tm |-> drop(inner),
          val |-> inner.tasks[inner.current_task].first_scheduled_time]

\* task::get_task_info: status, counters, and now minus the first-scheduled time
get_task_info(tm) ==
    LET _status == get_current_status(tm)
        _syscall_times == get_currtask_syscall_time(_status.tm)
        first == get_currtask_first_scheduled_time(_syscall_times.tm)
        res == [task |-> tm.current_task, status |-> _status.val,
                syscall_times |-> _syscall_times.val,
                time |-> usize_sub(get_time_ms, first.val)]
    IN  IF panicked(first.tm) THEN [tm |-> first.tm, val |-> res]
        ELSE IF get_time_ms < first.val /\ tm.overflow_checks
        THEN [tm |-> panic(first.tm, SubOverflow), val |-> res]
        ELSE [tm |-> first.tm, val |-> res]

\* sys_task_info: fills the caller's TaskInfo field by field and returns 0
sys_task_info(tm) ==
    LET status == get_current_status(tm)
        syscall_times == get_currtask_syscall_time(status.tm)
        first == get_currtask_first_scheduled_time(syscall_times.tm)
        task_info == [task |-> tm.current_task, status |-> status.val,
                      syscall_times |-> syscall_times.val,
                      time |-> usize_sub(get_time_ms, first.val)]
    IN  IF panicked(first.tm)
        THEN [tm |-> first.tm, ret |-> 0, info |-> task_info]
        ELSE IF get_time_ms < first.val /\ tm.overflow_checks
        THEN [tm |-> panic(first.tm, SubOverflow), ret |-> 0,
              info |-> task_info]
        ELSE [tm |-> first.tm, ret |-> 0, info |-> task_info]

\* load_initial_info, run on entry to every syscall: stamp, then count
load_initial_info(tm, syscall_id) ==
    record_this_call(schedule_mark(tm), syscall_id)

(* -------------------------- address translation ------------------------ *)

\* the value the scheduler's caller takes for "no physical address"
Fault == -1

\* VirtAddr::page_offset
page_offset(va) == va % PAGE_SIZE

\* the frame that backs page vpn of task id: every page of every task has
\* a frame of its own, and none is frame 0
frame_of(id, vpn) == id * (WordSize \div PAGE_SIZE) + vpn + 1

\* an entry of a page table that was never written
EmptyEntry == [ppn |-> 0, flags |-> {}]

\* PageTable::find_pte on the page table of task id: the entry of a mapped
\* page; for a page that is not mapped, the empty entry if the last-level
\* table of the page exists, and nothing if the walk ends above it
find_pte(id, page_table, vpn, leaf_exists) ==
    IF vpn \in DOMAIN page_table
    THEN [some |-> TRUE,
          pte |-> [ppn |-> frame_of(id, vpn), flags |-> page_table[vpn]]]
    ELSE IF leaf_exists THEN [some |-> TRUE, pte |-> EmptyEntry]
    ELSE [some |-> FALSE, pte |-> EmptyEntry]

\* TaskManager::get_pa_from_va: the entry's frame address plus the offset
\* of va in its page; panics when find_pte finds nothing, with the guard held
get_pa_from_va(tm, va, leaf_exists) ==
    LET inner == exclusive_access(tm) IN
    IF panicked(inner) THEN [tm |-> inner, val |-> Fault]
    ELSE
    LET cur == inner.current_task
        _va == VirtAddr(va)
        found == find_pte(cur, inner.tasks[cur].memory_set.page_table,
                          floor(_va), leaf_exists)
    IN  IF found.some
        THEN [tm |-> drop(inner),
              val |-> found.pte.ppn * PAGE_SIZE + page_offset(_va)]
        ELSE [tm |-> panic(inner, TranslateFailed), val |-> Fault]

(* ------------------------------ actions -------------------------------- *)

NoArgs(op) == [op |-> op, start |-> 0, len |-> 0, prot |-> 0]

NoInfo == [task |-> -1, status |-> "Ready",
           syscall_times |-> [id \in SyscallIds |-> 0], time |-> 0]

\* the task manager's fields after an operation
Becomes(tm) ==
    /\ tasks' = tm.tasks
    /\ current_task' = tm.current_task
    /\ borrowed' = tm.borrowed
    /\ outcome' = tm.outcome
    /\ UNCHANGED overflow_checks

\* the last NumApp tasks that consecutive yields switched to
Visit(id) == IF Len(visited) < NumApp THEN Append(visited, id)
             ELSE Append(Tail(visited), id)

\* the history of dispatches after a switch that left the task manager as tm:
\* the task switched to gets its first-run time, and every task that was
\* Ready and still is has waited through one more switch
Switched(tm) ==
    IF panicked(tm)
    THEN UNCHANGED <<dispatch_time, waiting>>
    ELSE /\ dispatch_time' =
              IF dispatch_time[tm.current_task] = -1
              THEN [dispatch_time EXCEPT ![tm.current_task] = clock]
              ELSE dispatch_time
         /\ waiting' =
              [ i \in TaskIds |->
                  IF tasks[i].task_status = "Ready"
                     /\ tm.tasks[i].task_status = "Ready"
                  THEN IF waiting[i] <= NumApp THEN waiting[i] + 1
                       ELSE waiting[i]
                  ELSE 0 ]

bookkeeping == <<clock, info, invoked, ncalls, reported>>

Init ==
    /\ tasks = [i \in TaskIds |-> TaskControlBlock]
    /\ current_task = 0
    /\ borrowed = FALSE
    /\ outcome = NoPanic
    /\ overflow_checks \in BOOLEAN
    /\ started = FALSE
    /\ clock = 0
    /\ call = NoArgs("boot")
    /\ ret = 0
    /\ info = NoInfo
    /\ visited = << >>
    /\ saved_areas = {}
    /\ invoked = [i \in TaskIds |-> [id \in SyscallIds |-> 0]]
    /\ ncalls = 0
    /\ dispatch_time = [i \in TaskIds |-> -1]
    /\ reported = [i \in TaskIds |-> -1]
    /\ waiting = [i \in TaskIds |-> 0]

\* rust_main calls task::run_first_task() once, after the task list is built
RunFirstTask ==
    /\ ~started /\ outcome = NoPanic
    /\ \E tm \in {run_first_task(TM)} :
         /\ Becomes(tm)
         /\ Switched(tm)
    /\ started' = TRUE
    /\ call' = NoArgs("run_first_task")
    /\ UNCHANGED <<visited, ret, saved_areas, bookkeeping>>

\* sys_yield, called by the running task: suspend_current_and_run_next,
\* one call after the other
SysYield ==
    /\ started /\ outcome = NoPanic
    /\ \E marked \in {mark_current_suspended(TM)} :
       \E tm \in {run_next_task(marked)} :
         /\ Becomes(tm)
         /\ Switched(tm)
         /\ visited' = IF panicked(tm) THEN visited ELSE Visit(tm.current_task)
    /\ call' = NoArgs("yield")
    /\ ret' = 0
    /\ UNCHANGED <<started, saved_areas, bookkeeping>>

\* sys_exit, called by the running task: exit_current_and_run_next, one
\* call after the other
SysExit ==
    /\ started /\ outcome = NoPanic
    /\ \E marked \in {mark_current_exited(TM)} :
       \E tm \in {run_next_task(marked)} :
         /\ Becomes(tm)
         /\ Switched(tm)
    /\ visited' = << >>
    /\ call' = NoArgs("exit")
    /\ UNCHANGED <<started, ret, saved_areas, bookkeeping>>

Next == RunFirstTask \/ SysYield \/ SysExit

Spec == Init /\ [][Next]_vars

\* the running task always makes its next yield or exit in the end, and
\* rust_main reaches run_first_task
FairSpec == Spec /\ WF_vars(Next)

(* ----------------------- the memory-mapping calls ---------------------- *)

\* start addresses the tasks pass: page 0, page 1, and one inside page 1
Starts == {0, PAGE_SIZE, PAGE_SIZE + 1}

\* lengths the tasks pass: nothing, a byte, two pages, and one that
\* carries start + len past the machine word from page 1 on
Lens == {0, 1, 2 * PAGE_SIZE, WordSize - PAGE_SIZE}

\* prot values the tasks pass: R and W together, 0, and two with a bit
\* outside R|W|X
Prots == {0, 3, 8, 9}

CurrentAreas == tasks[current_task].memory_set.areas

CurrentPageTable == tasks[current_task].memory_set.page_table

\* mmap(start, len, prot), called by the running task
Mmap ==
    /\ started /\ outcome = NoPanic
    /\ \E start \in Starts, len \in Lens, prot \in Prots :
         LET r == mmap(TM, start, len, prot) IN
           /\ Cardinality(r.tm.tasks[r.tm.current_task].memory_set.areas)
                 <= MaxAreas
           /\ Becomes(r.tm)
           /\ ret' = r.ret
           /\ call' = [op |-> "mmap", start |-> start, len |-> len,
                       prot |-> prot]
           /\ saved_areas' = IF r.ret = 0 THEN CurrentAreas ELSE {}
    /\ UNCHANGED <<started, visited, bookkeeping, dispatch_time, waiting>>

\* munmap(start, len), called by the running task
Munmap ==
    /\ started /\ outcome = NoPanic
    /\ \E start \in Starts, len \in Lens :
         LET r == munmap(TM, start, len) IN
           /\ Becomes(r.tm)
           /\ ret' = r.ret
           /\ call' = [op |-> "munmap", start |-> start, len |-> len,
                       prot |-> 0]
    /\ saved_areas' = {}
    /\ UNCHANGED <<started, visited, bookkeeping, dispatch_time, waiting>>

NextMem == RunFirstTask \/ Mmap \/ Munmap

SpecMem == Init /\ [][NextMem]_vars

(* ------------------- syscalls with their bookkeeping ------------------- *)

\* the arguments the tasks pass to mmap and munmap here: page 1, one byte
InfoStarts == {PAGE_SIZE}

InfoLens == {1}

InfoProts == {1, 3}

\* the history of invocations after the running task has made a syscall
Invoked(syscall_id) ==
    /\ invoked' = [invoked EXCEPT ![current_task][syscall_id] = @ + 1]
    /\ ncalls' = ncalls + 1

\* the timer interrupt advances the clock
Tick ==
    /\ outcome = NoPanic
    /\ clock < MaxClock
    /\ clock' = clock + 1
    /\ UNCHANGED <<tasks, current_task, borrowed, outcome, overflow_checks,
                   started, call, ret, info, visited, saved_areas, invoked,
                   ncalls, dispatch_time, reported, waiting>>

\* syscall(SYSCALL_YIELD): load_initial_info, then sys_yield
SyscallYield ==
    /\ started /\ outcome = NoPanic /\ ncalls < MaxCalls
    /\ LET tm == suspend_current_and_run_next(
                    load_initial_info(TM, SyscallId.yield)) IN
         /\ Becomes(tm)
         /\ Switched(tm)
         /\ visited' = IF panicked(tm) THEN visited ELSE Visit(tm.current_task)
    /\ Invoked(SyscallId.yield)
    /\ call' = NoArgs("yield")
    /\ ret' = 0
    /\ UNCHANGED <<started, clock, info, saved_areas, reported>>

\* syscall(SYSCALL_EXIT): load_initial_info, then sys_exit
SyscallExit ==
    /\ started /\ outcome = NoPanic /\ ncalls < MaxCalls
    /\ LET tm == exit_current_and_run_next(
                    load_initial_info(TM, SyscallId.exit)) IN
         /\ Becomes(tm)
         /\ Switched(tm)
    /\ Invoked(SyscallId.exit)
    /\ visited' = << >>
    /\ call' = NoArgs("exit")
    /\ UNCHANGED <<started, clock, ret, info, saved_areas, reported>>

\* syscall(SYSCALL_TASK_INFO): load_initial_info, then sys_task_info
SyscallTaskInfo ==
    /\ started /\ outcome = NoPanic /\ ncalls < MaxCalls
    /\ LET r == sys_task_info(load_initial_info(TM, SyscallId.task_info)) IN
         /\ Becomes(r.tm)
         /\ ret' = r.ret
         /\ info' = IF panicked(r.tm) THEN info ELSE r.info
         /\ reported' = IF panicked(r.tm) THEN reported
                        ELSE [reported EXCEPT ![current_task] = r.info.time]
    /\ Invoked(SyscallId.task_info)
    /\ call' = NoArgs("task_info")
    /\ UNCHANGED <<started, clock, visited, saved_areas, dispatch_time,
                   waiting>>

\* syscall(SYSCALL_MMAP): load_initial_info, then mmap
SyscallMmap ==
    /\ started /\ outcome = NoPanic /\ ncalls < MaxCalls
    /\ \E start \in InfoStarts, len \in InfoLens, prot \in InfoProts :
         LET r == mmap(load_initial_info(TM, SyscallId.mmap),
                       start, len, prot) IN
           /\ Becomes(r.tm)
           /\ ret' = r.ret
           /\ call' = [op |-> "mmap", start |-> start, len |-> len,
                       prot |-> prot]
    /\ Invoked(SyscallId.mmap)
    /\ UNCHANGED <<started, clock, info, visited, saved_areas, reported,
                   dispatch_time, waiting>>

\* syscall(SYSCALL_MUNMAP): load_initial_info, then munmap
SyscallMunmap ==
    /\ started /\ outcome = NoPanic /\ ncalls < MaxCalls
    /\ \E start \in InfoStarts, len \in InfoLens :
         LET r == munmap(load_initial_info(TM, SyscallId.munmap),
                         start, len) IN
           /\ Becomes(r.tm)
           /\ ret' = r.ret
           /\ call' = [op |-> "munmap", start |-> start, len |-> len,
                       prot |-> 0]
    /\ Invoked(SyscallId.munmap)
    /\ UNCHANGED <<started, clock, info, visited, saved_areas, reported,
                   dispatch_time, waiting>>

\* virtual addresses the kernel is asked to translate: one in the image
\* page, one in page 1, one in a page that is never mapped
Vas == {1, PAGE_SIZE + 1, 3 * PAGE_SIZE}

\* get_pa_from_va(va), called for the running task
GetPaFromVa ==
    /\ started /\ outcome = NoPanic
    /\ \E va \in Vas, leaf_exists \in BOOLEAN :
         LET r == get_pa_from_va(TM, va, leaf_exists) IN
           /\ floor(va) \in DOMAIN CurrentPageTable => leaf_exists
           /\ Becomes(r.tm)
           /\ ret' = r.val
           /\ call' = [op |-> "get_pa_from_va", start |-> va, len |-> 0,
                       prot |-> 0]
    /\ UNCHANGED <<started, clock, info, visited, saved_areas, invoked,
                   ncalls, dispatch_time, reported, waiting>>

NextInfo ==
    \/ RunFirstTask
    \/ Tick
    \/ SyscallYield
    \/ SyscallExit
    \/ SyscallTaskInfo

SpecInfo == Init /\ [][NextInfo]_vars

NextIso ==
    \/ RunFirstTask
    \/ SyscallYield
    \/ SyscallMmap
    \/ SyscallMunmap
    \/ GetPaFromVa

SpecIso == Init /\ [][NextIso]_vars

(* ------------------------- scheduler properties ------------------------ *)

Status(i) == tasks[i].task_status

RunningTasks == { i \in TaskIds : Status(i) = "Running" }

NoneExited == \A i \in TaskIds : Status(i) # "Exited"

AllExited == \A i \in TaskIds : Status(i) = "Exited"

\* C1: in every reachable state at most one task of the task list has
\* status Running.
C1_AtMostOneRunning == Cardinality(RunningTasks) <= 1

\* a yield has switched from one task to another: the new one is Running
\* and the one that yielded is Ready
C1_Witness ==
    /\ call.op = "yield"
    /\ Cardinality(RunningTasks) = 1
    /\ \E i \in TaskIds : i # current_task /\ Status(i) = "Ready"

\* C2: while no task has exited, the tasks that consecutive yields switch to
\* are pairwise distinct over any NumApp yields in a row, and NumApp yields
\* in a row switch to every task index.
C2_RoundRobin ==
    NoneExited =>
        /\ \A p, q \in 1 .. Len(visited) : p # q => visited[p] # visited[q]
        /\ Len(visited) = NumApp =>
              { visited[p] : p \in 1 .. Len(visited) } = TaskIds

\* NumApp yields in a row with no task exited
C2_Witness == NoneExited /\ Len(visited) = NumApp

\* C3: when every task is Exited the scheduling attempt of that exit has
\* halted the kernel with "All applications completed!"; the kernel halts
\* that way only when no task is Ready; and the halting step marks no task
\* Running and leaves current_task alone.
C3_HaltWhenAllExited ==
    /\ [](AllExited => outcome = AllCompleted)
    /\ [](outcome = AllCompleted => \A i \in TaskIds : Status(i) # "Ready")
    /\ [][ (outcome # AllCompleted /\ outcome' = AllCompleted) =>
              /\ current_task' = current_task
              /\ \A i \in TaskIds : tasks'[i].task_status # "Running" ]_vars

\* the last task has exited and the kernel has halted
C3_Witness == AllExited /\ outcome = AllCompleted /\ call.op = "exit"

\* C4: a task that is Exited stays Exited in every step and no step makes
\* it the current task.
C4_ExitedIsTerminal ==
    [][ \A i \in TaskIds :
          Status(i) = "Exited" =>
             /\ tasks'[i].task_status = "Exited"
             /\ current_task' = i => current_task = i ]_vars

\* a task has exited and the others went on yielding
C4_Witness ==
    /\ \E i \in TaskIds : Status(i) = "Exited"
    /\ Len(visited) >= 2
    /\ outcome = NoPanic

\* C5: the cell is never borrowed twice (no operation aborts on its
\* acquisition) and it is released whenever control is handed to __switch
\* or back to the task.
C5_GuardReleased == borrowed = FALSE /\ outcome # BorrowMutError

\* run_next_task has reached __switch after run_first_task did
C5_Witness ==
    /\ started /\ call.op = "yield" /\ outcome = NoPanic
    /\ ~borrowed /\ current_task # 0

(* ---------------------- memory-mapping properties ---------------------- *)

\* the pages that the bytes start .. start+len-1 lie in, start + len taken
\* as a number and not as a machine word
RequestedPages(start, len) ==
    { v \in 0 .. (2 * WordSize) \div PAGE_SIZE :
        /\ len > 0
        /\ v * PAGE_SIZE < start + len
        /\ (v + 1) * PAGE_SIZE > start }

\* C6: an mmap whose start is not a multiple of 4096, or whose prot is 0 or
\* has a bit outside R|W|X, returns -1 and changes no task's memory set,
\* whatever len and the current mappings are.
C6_MmapRejectsBadArguments ==
    [][ ( /\ call'.op = "mmap"
          /\ \/ call'.start % PAGE_SIZE # 0
             \/ call'.prot = 0
             \/ call'.prot >= 8 )
        => (outcome' = NoPanic /\ ret' = -1 /\ tasks' = tasks) ]_vars

\* C7: an mmap with prot in 1..7, an aligned start and a range that meets no
\* region returns 0 and adds one region that covers every page of the range
\* and has exactly the permissions U, R iff bit 1, W iff bit 2, X iff bit 4.
C7_MmapMapsRequestedRange ==
    [][ ( /\ call'.op = "mmap"
          /\ call'.prot \in 1 .. 7
          /\ call'.start % PAGE_SIZE = 0
          /\ \A a \in CurrentAreas :
                AreaPages(a) \cap RequestedPages(call'.start, call'.len) = {} )
        => /\ ret' = 0
           /\ \E a \in CurrentAreas' :
                /\ CurrentAreas' = CurrentAreas \cup {a}
                /\ RequestedPages(call'.start, call'.len) \subseteq AreaPages(a)
                /\ RequestedPages(call'.start, call'.len)
                      \subseteq DOMAIN CurrentPageTable'
                /\ a.perm = {"U"}
                      \cup (IF call'.prot \in {1, 3, 5, 7} THEN {"R"} ELSE {})
                      \cup (IF call'.prot \in {2, 3, 6, 7} THEN {"W"} ELSE {})
                      \cup (IF call'.prot \in {4, 5, 6, 7} THEN {"X"} ELSE {}) ]_vars

C9_MunmapRejectsHoles ==
    [][ ( /\ call'.op = "munmap"
          /\ \E v \in RequestedPages(call'.start, call'.len) :
                v \notin DOMAIN CurrentPageTable )
        => (ret' = -1 /\ tasks' = tasks) ]_vars

\* C10: a munmap(start, len) that directly follows an mmap(start, len, prot)
\* which returned 0 returns 0 and leaves the task with the regions it had
\* before that mmap.
C10_MmapMunmapRoundTrip ==
    [][ ( /\ call.op = "mmap" /\ ret = 0
          /\ call'.op = "munmap"
          /\ call'.start = call.start /\ call'.len = call.len )
        => (ret' = 0 /\ CurrentAreas' = saved_areas) ]_vars

\* C11: in every task's memory set the regions are pairwise disjoint and
\* every mapped page lies in exactly one region.
C11_RegionsDisjoint ==
    \A t \in TaskIds :
       LET ms == tasks[t].memory_set IN
       /\ \A a, b \in ms.areas : a # b => AreaPages(a) \cap AreaPages(b) = {}
       /\ \A v \in DOMAIN ms.page_table :
             Cardinality({ a \in ms.areas : v \in AreaPages(a) }) = 1

\* a munmap has succeeded and a region made by an mmap is still mapped
C11_Witness ==
    /\ call.op = "munmap" /\ ret = 0
    /\ \E a \in CurrentAreas :
          /\ a # ImageArea
          /\ AreaPages(a) # {}
          /\ AreaPages(a) \subseteq DOMAIN CurrentPageTable

(* ------------------------ bookkeeping properties ----------------------- *)

\* the step is a syscall of the running task that returned to user mode
Returned(op) == call'.op = op /\ ncalls' = ncalls + 1 /\ outcome' = NoPanic

\* C12 as stated: every count that task_info reports to a task is the number
\* of times that task has invoked that syscall since boot.
C12_CountsAreInvocations ==
    [][ Returned("task_info")
        => \A k \in SyscallIds :
              info'.syscall_times[k] = invoked'[current_task][k] ]_vars

\* C12, amended: every count that task_info reports to a task is the number
\* of times that task has invoked that syscall since boot, taken modulo the
\* range of the counter; no other task's calls are in it.
C12_CountsAreInvocationsModulo ==
    [][ Returned("task_info")
        => \A k \in SyscallIds :
              info'.syscall_times[k]
                 = invoked'[current_task][k] % (CounterMax + 1) ]_vars

\* a task other than the first has been told of its second task_info call
\* after the first task made a call of its own
C12_Witness ==
    /\ call.op = "task_info" /\ outcome = NoPanic
    /\ info.task # 0
    /\ info.syscall_times[SyscallId.task_info] = 2
    /\ invoked[0][SyscallId.yield] >= 1


\* C13: once a task has been stamped, no step changes its first-scheduled
\* time or clears the stamp, and the time task_info reports to a task never
\* goes down from one report to the next.
C13_FirstScheduledOnce ==
    [][ \A t \in TaskIds :
          /\ tasks[t].is_scheduled
                => /\ tasks'[t].is_scheduled
                   /\ tasks'[t].first_scheduled_time
                         = tasks[t].first_scheduled_time
          /\ reported[t] # -1 => reported'[t] >= reported[t] ]_vars

\* a stamped task yielded, was switched back to after the clock moved on,
\* and was told a time measured from its old stamp
C13_Witness ==
    /\ call.op = "task_info" /\ outcome = NoPanic
    /\ invoked[info.task][SyscallId.yield] >= 1
    /\ tasks[info.task].first_scheduled_time < clock
    /\ info.time = clock - tasks[info.task].first_scheduled_time
    /\ reported[info.task] = info.time


\* C14: the first-scheduled time of a stamped task is the clock value at
\* which the task first became Running.
C14_StampIsFirstDispatch ==
    \A t \in TaskIds :
       tasks[t].is_scheduled
          => tasks[t].first_scheduled_time = dispatch_time[t]

(* ------------------------ translation properties ----------------------- *)

\* C15: get_pa_from_va on an address whose page the running task has not
\* mapped hands the fault to its caller, and the kernel does not panic.
C15_UnmappedFaults ==
    [][ ( /\ call'.op = "get_pa_from_va"
          /\ outcome = NoPanic
          /\ floor(call'.start) \notin DOMAIN CurrentPageTable )
        => (outcome' = NoPanic /\ ret' = Fault) ]_vars


(* --------------------- counters, overflow and frames -------------------- *)

\* C16: a syscall of the running task adds one to that task's counter for
\* the syscall; at the largest counter value the addition does not abort the
\* kernel and leaves the counter at zero or at the largest value.
C16_CounterNeverAborts ==
    [][ ( /\ ncalls' = ncalls + 1
          /\ call'.op \in DOMAIN SyscallId )
        => LET id == SyscallId[call'.op]
               old == tasks[current_task].syscall_times[id]
               new == tasks'[current_task].syscall_times[id]
           IN  /\ outcome' # AddOverflow
               /\ old < CounterMax => new = old + 1
               /\ old = CounterMax => new \in {0, CounterMax} ]_vars

\* position of task i in the scan that starts after task current
ScanPosition(current, i) == ((i - current - 1) % NumApp) + 1

\* the Ready task of tm that comes first in the scan, or None
FirstReady(tm) ==
    LET ready == { i \in TaskIds : tm.tasks[i].task_status = "Ready" } IN
    IF ready = {} THEN None
    ELSE CHOOSE i \in ready :
            \A o \in ready : ScanPosition(tm.current_task, i)
                                <= ScanPosition(tm.current_task, o)

\* C17: whether the running task is about to yield or to exit,
\* find_next_task returns the first Ready task in the cyclic order
\* current+1, ..., current, and None exactly when no task is Ready; and the
\* switch makes that task the current one and Running, the yielding task
\* itself when it is the only one left.
C17_FirstReadyInCyclicOrder ==
    (started /\ outcome = NoPanic) =>
        \A marked \in {mark_current_suspended(TM), mark_current_exited(TM)} :
           LET found == find_next_task(marked).val
               after == run_next_task(marked)
           IN  /\ found = FirstReady(marked)
               /\ found = None
                     <=> \A i \in TaskIds :
                            marked.tasks[i].task_status # "Ready"
               /\ found # None
                     => /\ after.current_task = found
                        /\ after.tasks[found].task_status = "Running"
                        /\ after.outcome = NoPanic
               /\ found = None => after.outcome = AllCompleted

\* the only task that has not exited has yielded and is Running again
C17_Witness ==
    /\ call.op = "yield" /\ outcome = NoPanic
    /\ Status(current_task) = "Running"
    /\ \A i \in TaskIds \ {current_task} : Status(i) = "Exited"

\* C18: mmap and munmap return 0 or -1 and never panic, whatever start, len
\* and prot are; when start + len is beyond the machine word they change no
\* task's memory set.
C18_MmapMunmapNeverAbort ==
    [][ call'.op \in {"mmap", "munmap"}
        => /\ outcome' = NoPanic
           /\ ret' \in {0, -1}
           /\ add_overflows(call'.start, call'.len) => tasks' = tasks ]_vars

\* C19: a syscall that runs schedule_mark, record_this_call and then mmap or
\* munmap leaves current_task and every task's status as they were, and
\* changes no field of any task but the running one.
C19_OnlyCurrentTaskChanges ==
    [][ ( /\ call'.op \in {"mmap", "munmap"}
          /\ ncalls' = ncalls + 1 )
        => /\ current_task' = current_task
           /\ \A t \in TaskIds :
                 tasks'[t].task_status = tasks[t].task_status
           /\ \A t \in TaskIds \ {current_task} : tasks'[t] = tasks[t] ]_vars

\* a task other than the first has mapped a region on its first syscall,
\* while the first task holds a stamp, a count and a region of its own
C19_Witness ==
    /\ call.op = "mmap" /\ ret = 0 /\ outcome = NoPanic
    /\ current_task # 0
    /\ invoked[current_task][SyscallId.mmap] = 1
    /\ tasks[current_task].syscall_times[SyscallId.mmap] = 1
    /\ tasks[current_task].is_scheduled
    /\ tasks[current_task].memory_set.areas # {ImageArea}
    /\ tasks[0].is_scheduled
    /\ tasks[0].syscall_times[SyscallId.mmap] = 1
    /\ tasks[0].memory_set.areas # {ImageArea}

\* C20: when the running task always yields or exits in the end, a Ready
\* task waits through at most NumApp - 1 switches to other tasks, and every
\* Ready task becomes Running.
C20_NoStarvation ==
    /\ [](\A i \in TaskIds : waiting[i] <= NumApp - 1)
    /\ \A i \in TaskIds : (Status(i) = "Ready") ~> (Status(i) = "Running")

\* the last task has waited through NumApp - 1 switches to the others
C20_Witness ==
    /\ Status(NumApp - 1) = "Ready"
    /\ waiting[NumApp - 1] = NumApp - 1

====
